---- MODULE Spec2Model ----
(***************************************************************************)
(* Model of kerastuner/engine/tuner.py: the instance generation loop       *)
(* Tuner.new_instance and the statistics kept by Tuner.record_results.     *)
(*                                                                         *)
(* The model factory, the distribution strategy and Instance are external  *)
(* collaborators; what they return is drawn from small sets.  A model is   *)
(* a record of its structural configuration and of the hyperparameters     *)
(* that were sampled when it was built.                                    *)
(***************************************************************************)
EXTENDS Integers, Sequences, FiniteSets, TLC

\* ---------------------------------------------------------------- bounds
MaxGenerated == 6      \* cap on num_generated_models (attempts in a run)
NumHParams == 2        \* distinct hyperparameter samples
MaxResults == 3        \* cap on the result files of the results directory
MaxRecords == 2        \* cap on the number of record_results calls
NumValues == 2         \* distinct metric values a training can report

\* ------------------------------------------------------ program constants
max_fail_streak == 5   \* tuner.py:64
max_params == 2        \* self.max_params, read at tuner.py:287
NoIdx == -1            \* tuner.py:66, current_instance_idx before any instance
SysMaxsize == 2147483647  \* sys.maxsize (tuner.py:105), the largest integer of the checker
MaxSentinel == -1      \* tuner.py:107

Null == 0                         \* Python's None, not an identity
Pending == -2                     \* new_instance has not returned yet
Configs == 1 .. (max_params + 1)  \* structural configurations the factory can build
HParams == 1 .. NumHParams
Models == [config : Configs, hparams : HParams]
\* metric values (res_val, line 334): a range that starts below MaxSentinel
Values == (MaxSentinel - 1) .. (MaxSentinel + NumValues - 2)

\* key_metrics chosen by the user (tuner.py:77-89): (name, direction) pairs
key_metrics == << <<"loss", "min">>, <<"acc", "max">> >>
METRIC_NAME == 1
METRIC_DIRECTION == 2
MetricNames == { key_metrics[i][METRIC_NAME] : i \in DOMAIN key_metrics }

\* model.get_config(): the structural configuration only
get_config(model) == model.config

\* hashlib.sha256(str(config)).hexdigest()[:32], tabulated on Configs:
\* a fixed digest per configuration string
Sha256Prefix == [c \in Configs |-> 100 + ((c * 7) % 10)]

\* an identity that also depends on the sampled hyperparameters
compute_model_id_hp(model) ==
  Sha256Prefix[get_config(model)] + 1000 * model.hparams

compute_model_id(model) == Sha256Prefix[get_config(model)]

Ids == { Sha256Prefix[c] : c \in Configs }

\* the number of parameters of a configuration
count_params(config) == config

\* instance.compute_model_size(): the parameter count of the built model
compute_model_size(model) == count_params(get_config(model))

VARIABLES
  previous_instances,          \* identities loaded from earlier runs (read-only)
  instances,                   \* identity -> Instance registered in this run
  current_instance_idx,        \* NoIdx or the key of the last registered Instance
  num_generated_models, num_invalid_models, num_collisions,
  num_over_sized_models, num_mdl_previously_trained,
  current_hyperparameters,
  meta_tuner,                  \* meta_data['tuner']
  pc,                          \* "idle" | "loop": position of new_instance
  fail_streak, collision_streak, over_sized_streak,  \* locals of new_instance
  ret,                         \* what the last finished new_instance returned
  last,                        \* the branch the last attempt of the loop took
  entry,                       \* the counters and the mapping when the call began
  provided,                    \* the attributes that tuner.py reads and never
                               \* assigns, as the caller has set them on the
                               \* object before __init__ runs
  built,                       \* what the factory has returned so far: the
                               \* configurations it built, Null for no model
  none_returns,                \* attempts in which the factory returned no model
  max_generated,               \* the attempts the run is followed for
  stats,                       \* stats['best'], stats['latest']
  seen,                        \* per metric, the set of values recorded so far
  last_recorded,               \* per metric, the value recorded most recently
  num_records,
  rec_outcome,                 \* how the last record_results ended
  rec_call,                    \* how it was called: without idx, with an Instance
                               \* registered, after new_instance returned None
  best_call                    \* the last get_best_models / get_best_model call

genVars == << previous_instances, instances, current_instance_idx,
              num_generated_models, num_invalid_models, num_collisions,
              num_over_sized_models, num_mdl_previously_trained,
              current_hyperparameters, meta_tuner, pc, fail_streak,
              collision_streak, over_sized_streak, ret, last,
              entry, built, none_returns, max_generated, provided >>
recVars == << stats, seen, last_recorded, num_records, rec_outcome, rec_call >>
vars == << genVars, recVars, best_call >>

\* initial stats['best'] (tuner.py:101-107)
InitBest ==
  [n \in MetricNames |->
     LET km == CHOOSE k \in { key_metrics[i] : i \in DOMAIN key_metrics } :
                  k[METRIC_NAME] = n
     IN IF km[METRIC_DIRECTION] = "min" THEN SysMaxsize ELSE MaxSentinel]

\* the counters and the mapping, as a call of new_instance finds them
Snapshot ==
  [instances |-> instances, current_instance_idx |-> current_instance_idx,
   generated |-> num_generated_models, invalid |-> num_invalid_models,
   collisions |-> num_collisions, oversized |-> num_over_sized_models,
   previously |-> num_mdl_previously_trained]

\* what one call of the factory gives: it raises, it returns no model, or
\* it returns a model of some configuration
Raised == -3
ModelFnOutcomes == {Raised, Null} \cup Configs

\* lines 151-161, called at line 58 outside any try: the constructor calls
\* the factory once and drops what it returns; when the factory raises,
\* the constructor raises and there is no tuner (pc = "failed"), and no
\* operation can follow
check_and_store_model_fn(outcome) ==
  built = IF outcome = Raised THEN {} ELSE {outcome}

\* no line of tuner.py assigns meta_data, previous_instances, num_gpu,
\* max_params, the five counters or current_hyperparameters (the TunerState
\* of line 53 is kept in self.state, the code reads them from self): the
\* caller, a subclass, has set none of them, those __init__ reads, or all
Provisions == {"nothing", "read_by_init", "all"}

\* what new_instance leaves of a call that raised AttributeError
AttributeErrorRaised == -4

\* lines 53-136: the constructor raises when the factory raises (line 160)
\* and when self.meta_data does not exist (AttributeError, line 108)
ConstructorOutcome(outcome) ==
  pc = IF outcome = Raised \/ provided = "nothing" THEN "failed"
                                                    ELSE "idle"

\* lines 63-66, 96-108 and 111: the fields the constructor assigns, and
\* the earlier results it loads (lines 138-149)
InitFields ==
  /\ previous_instances \in SUBSET Ids
  /\ instances = << >>
  /\ current_instance_idx = NoIdx
  /\ stats = [best |-> InitBest, latest |-> << >>]

\* the counters of the run and their copy in the metadata, where the caller
\* has set them: initialised at construction, they start at zero. Where
\* they do not exist the values stand for nothing: no step reads them.
TunerStateInit ==
  /\ num_generated_models = 0
  /\ num_invalid_models = 0
  /\ num_collisions = 0
  /\ num_over_sized_models = 0
  /\ num_mdl_previously_trained = 0
  /\ current_hyperparameters = Null
  /\ meta_tuner = [trained_models |-> 0, collisions |-> 0,
                   invalid_models |-> 0, over_size_models |-> 0]

\* the outcome of Tuner(model_fn, ...): a tuner as __init__ leaves it, or
\* no tuner when the constructor raised (the fields then stand for nothing
\* and are never read)
InitTuner ==
  /\ provided \in Provisions
  /\ \E outcome \in ModelFnOutcomes :
       /\ check_and_store_model_fn(outcome)
       /\ ConstructorOutcome(outcome)
  /\ InitFields
  /\ TunerStateInit
  /\ fail_streak = 0
  /\ collision_streak = 0
  /\ over_sized_streak = 0
  /\ ret = Pending
  /\ last = "none"
  /\ entry = [instances |-> << >>, current_instance_idx |-> NoIdx,
              generated |-> 0, invalid |-> 0, collisions |-> 0,
              oversized |-> 0, previously |-> 0]
  /\ none_returns = 0
  /\ seen = [n \in MetricNames |-> {}]
  /\ last_recorded = << >>
  /\ num_records = 0
  /\ rec_outcome = "none"
  /\ rec_call = [no_idx |-> FALSE, registered |-> FALSE,
                 after_none |-> FALSE]
  /\ best_call = [op |-> "none"]

Init == InitTuner /\ max_generated = MaxGenerated

\* ------------------------------------------------------------ new_instance
\* lines 233-237: entry of new_instance, the three streak locals start at 0
NewInstanceCall ==
  /\ pc = "idle"
  /\ num_generated_models < max_generated
  /\ pc' = "loop"
  /\ fail_streak' = 0
  /\ collision_streak' = 0
  /\ over_sized_streak' = 0
  /\ entry' = Snapshot
  /\ ret' = Pending
  /\ last' = "none"
  /\ UNCHANGED << previous_instances, instances, current_instance_idx,
                  num_generated_models, num_invalid_models, num_collisions,
                  num_over_sized_models, num_mdl_previously_trained,
                  current_hyperparameters, meta_tuner, built, none_returns,
                  max_generated, provided >>
  /\ UNCHANGED << recVars, best_call >>

\* num_generated_models counted once per call instead of once per attempt
AttemptHead_percall ==
  /\ pc = "loop"
  /\ provided = "all"
  /\ num_generated_models < max_generated
  /\ num_generated_models' =
       IF fail_streak = 0 THEN num_generated_models + 1
                          ELSE num_generated_models
  /\ fail_streak' = fail_streak + 1
  /\ entry' = entry
  /\ max_generated' = max_generated
  /\ provided' = provided

\* lines 239-243: head of every loop iteration, where the counters exist
AttemptHead ==
  /\ pc = "loop"
  /\ provided = "all"
  /\ num_generated_models < max_generated
  /\ num_generated_models' = num_generated_models + 1
  /\ fail_streak' = fail_streak + 1
  /\ entry' = entry
  /\ max_generated' = max_generated
  /\ provided' = provided

InvalidGivesUp_late(n) == n > max_fail_streak

\* the exit test of the invalid branch (line 256)
InvalidGivesUp(n) == n >= max_fail_streak

CollisionGivesUp_late(streak) == streak > max_fail_streak

\* the exit test of the collision branch (line 277)
CollisionGivesUp(streak) == streak >= max_fail_streak

OverSizedGivesUp_late(streak) == streak > max_fail_streak
OverSizedGivesUp_never(streak) == FALSE

\* the exit test of the oversized branch (line 292)
OverSizedGivesUp(streak) == streak >= max_fail_streak

IsPrevious_never(idx) == FALSE

\* line 267: the identity belongs to an earlier run
IsPrevious(idx) == idx \in previous_instances

\* line 272: the identity is a key of the mapping of this run
IsCollision(idx) == idx \in DOMAIN instances

\* the size test (line 287)
OverSized(num_params) == num_params > max_params

\* _update_metadata (lines 439-448), with the counters as they are when called
UpdatedMetadata(generated, collisions, invalid, oversized) ==
  [trained_models |-> generated, collisions |-> collisions,
   invalid_models |-> invalid, over_size_models |-> oversized]

\* lines 244-258: model_fn() raised
AttemptInvalid ==
  /\ AttemptHead
  /\ num_invalid_models' = num_invalid_models + 1
  /\ last' = "invalid"
  /\ IF InvalidGivesUp(num_invalid_models + 1)
       THEN pc' = "idle" /\ ret' = Null
       ELSE pc' = "loop" /\ ret' = ret
  /\ UNCHANGED << previous_instances, instances, current_instance_idx,
                  num_collisions, num_over_sized_models,
                  num_mdl_previously_trained, current_hyperparameters,
                  meta_tuner, collision_streak, over_sized_streak,
                  built, none_returns >>
  /\ UNCHANGED << recVars, best_call >>

\* lines 260-263: model_fn() returned nothing
AttemptNoModel ==
  /\ AttemptHead
  /\ none_returns' = none_returns + 1
  /\ last' = "no_model"
  /\ built' = built \cup {Null}
  /\ pc' = "idle"
  /\ ret' = Null
  /\ UNCHANGED << previous_instances, instances, current_instance_idx,
                  num_invalid_models, num_collisions, num_over_sized_models,
                  num_mdl_previously_trained, current_hyperparameters,
                  meta_tuner, collision_streak, over_sized_streak >>
  /\ UNCHANGED << recVars, best_call >>

\* the previous-run duplicate counted against the collision streak
AttemptPrevious_counted(model) ==
  LET idx == compute_model_id(model) IN
  /\ AttemptHead
  /\ built' = built \cup {get_config(model)}
  /\ IsPrevious(idx)
  /\ num_mdl_previously_trained' = num_mdl_previously_trained + 1
  /\ collision_streak' = collision_streak + 1
  /\ last' = "previous"
  /\ IF CollisionGivesUp(collision_streak + 1)
       THEN pc' = "idle" /\ ret' = Null
       ELSE pc' = "loop" /\ ret' = ret
  /\ UNCHANGED << previous_instances, instances, current_instance_idx,
                  num_invalid_models, num_collisions, num_over_sized_models,
                  current_hyperparameters, meta_tuner, over_sized_streak,
                  none_returns >>
  /\ UNCHANGED << recVars, best_call >>

\* lines 265-270: the identity was trained in an earlier run
AttemptPrevious(model) ==
  LET idx == compute_model_id(model) IN
  /\ AttemptHead
  /\ built' = built \cup {get_config(model)}
  /\ IsPrevious(idx)
  /\ num_mdl_previously_trained' = num_mdl_previously_trained + 1
  /\ last' = "previous"
  /\ UNCHANGED << previous_instances, instances, current_instance_idx,
                  num_invalid_models, num_collisions, num_over_sized_models,
                  current_hyperparameters, meta_tuner, pc, collision_streak,
                  over_sized_streak, ret, none_returns >>
  /\ UNCHANGED << recVars, best_call >>

\* lines 272-279: the identity is already registered in this run
AttemptCollision(model) ==
  LET idx == compute_model_id(model) IN
  /\ AttemptHead
  /\ built' = built \cup {get_config(model)}
  /\ ~IsPrevious(idx)
  /\ IsCollision(idx)
  /\ collision_streak' = collision_streak + 1
  /\ num_collisions' = num_collisions + 1
  /\ meta_tuner' = [meta_tuner EXCEPT !.collisions = num_collisions + 1]
  /\ last' = "collision"
  /\ IF CollisionGivesUp(collision_streak + 1)
       THEN pc' = "idle" /\ ret' = Null
       ELSE pc' = "loop" /\ ret' = ret
  /\ UNCHANGED << previous_instances, instances, current_instance_idx,
                  num_invalid_models, num_over_sized_models,
                  num_mdl_previously_trained, current_hyperparameters,
                  over_sized_streak, none_returns >>
  /\ UNCHANGED << recVars, best_call >>

\* the oversized Instance stored in the mapping before it is rejected
AttemptOverSized_stored(model) ==
  LET idx == compute_model_id(model)
      num_params == compute_model_size(model) IN
  /\ AttemptHead
  /\ built' = built \cup {get_config(model)}
  /\ ~IsPrevious(idx)
  /\ ~IsCollision(idx)
  /\ current_hyperparameters' = model.hparams
  /\ meta_tuner' = UpdatedMetadata(num_generated_models + 1, num_collisions,
                                   num_invalid_models, num_over_sized_models)
  /\ OverSized(num_params)
  /\ instances' = [k \in DOMAIN instances \cup {idx} |->
                     IF k = idx
                       THEN [idx |-> idx, model |-> model,
                             hparams |-> model.hparams,
                             num_params |-> num_params]
                       ELSE instances[k]]
  /\ over_sized_streak' = over_sized_streak + 1
  /\ num_over_sized_models' = num_over_sized_models + 1
  /\ last' = "oversized"
  /\ IF OverSizedGivesUp(over_sized_streak + 1)
       THEN pc' = "idle" /\ ret' = Null
       ELSE pc' = "loop" /\ ret' = ret
  /\ UNCHANGED << previous_instances, current_instance_idx,
                  num_invalid_models, num_collisions,
                  num_mdl_previously_trained, collision_streak,
                  none_returns >>
  /\ UNCHANGED << recVars, best_call >>

\* lines 280-294: a new identity whose Instance is too large
AttemptOverSized(model) ==
  LET idx == compute_model_id(model)
      num_params == compute_model_size(model) IN
  /\ AttemptHead
  /\ built' = built \cup {get_config(model)}
  /\ ~IsPrevious(idx)
  /\ ~IsCollision(idx)
  /\ current_hyperparameters' = model.hparams
  /\ meta_tuner' = UpdatedMetadata(num_generated_models + 1, num_collisions,
                                   num_invalid_models, num_over_sized_models)
  /\ OverSized(num_params)
  /\ over_sized_streak' = over_sized_streak + 1
  /\ num_over_sized_models' = num_over_sized_models + 1
  /\ last' = "oversized"
  /\ IF OverSizedGivesUp(over_sized_streak + 1)
       THEN pc' = "idle" /\ ret' = Null
       ELSE pc' = "loop" /\ ret' = ret
  /\ UNCHANGED << previous_instances, instances, current_instance_idx,
                  num_invalid_models, num_collisions,
                  num_mdl_previously_trained, collision_streak,
                  none_returns >>
  /\ UNCHANGED << recVars, best_call >>

\* self.instances[idx] = instance (line 298)
Register(mapping, idx, instance) ==
  [k \in DOMAIN mapping \cup {idx} |->
     IF k = idx THEN instance ELSE mapping[k]]

\* lines 280-312: a new identity within the size budget is registered
AttemptSuccess(model) ==
  LET idx == compute_model_id(model)
      num_params == compute_model_size(model) IN
  /\ AttemptHead
  /\ built' = built \cup {get_config(model)}
  /\ ~IsPrevious(idx)
  /\ ~IsCollision(idx)
  /\ current_hyperparameters' = model.hparams
  /\ meta_tuner' = UpdatedMetadata(num_generated_models + 1, num_collisions,
                                   num_invalid_models, num_over_sized_models)
  /\ ~OverSized(num_params)
  /\ instances' = Register(instances, idx,
                           [idx |-> idx, model |-> model,
                            hparams |-> model.hparams,
                            num_params |-> num_params])
  /\ current_instance_idx' = idx
  /\ last' = "success"
  /\ pc' = "idle"
  /\ ret' = idx
  /\ UNCHANGED << previous_instances, num_invalid_models, num_collisions,
                  num_over_sized_models, num_mdl_previously_trained,
                  collision_streak, over_sized_streak, none_returns >>
  /\ UNCHANGED << recVars, best_call >>

\* line 242 where self.num_generated_models does not exist: the += raises
\* AttributeError before fail_streak is counted and before the factory is
\* called; the call ends, nothing of the tuner has changed
AttemptAttributeError ==
  /\ pc = "loop"
  /\ provided # "all"
  /\ pc' = "idle"
  /\ ret' = AttributeErrorRaised
  /\ last' = "attribute_error"
  /\ UNCHANGED << previous_instances, instances, current_instance_idx,
                  num_generated_models, num_invalid_models, num_collisions,
                  num_over_sized_models, num_mdl_previously_trained,
                  current_hyperparameters, meta_tuner, fail_streak,
                  collision_streak, over_sized_streak, entry, built,
                  none_returns, max_generated, provided >>
  /\ UNCHANGED << recVars, best_call >>

NextGen ==
  \/ NewInstanceCall
  \/ AttemptAttributeError
  \/ AttemptInvalid
  \/ AttemptNoModel
  \/ \E model \in Models : AttemptPrevious(model)
  \/ \E model \in Models : AttemptCollision(model)
  \/ \E model \in Models : AttemptOverSized(model)
  \/ \E model \in Models : AttemptSuccess(model)

\* ---------------------------------------------------------- record_results
Min(a, b) == IF a <= b THEN a ELSE b
Max(a, b) == IF a >= b THEN a ELSE b

Direction(name) ==
  (CHOOSE k \in { key_metrics[i] : i \in DOMAIN key_metrics } :
      k[METRIC_NAME] = name)[METRIC_DIRECTION]

\* what instance.record_results() can report under 'key_metrics': any values
\* for any subset of the tracked metrics
ResultSets ==
  UNION { [present -> Values] : present \in SUBSET MetricNames }

\* the lookup with the initial index in place of the current one
LookupKey_initial(idx) == IF idx = Null THEN NoIdx ELSE idx

\* lines 320-323: the instance lookup; a missing key raises KeyError
LookupKey(idx) == IF idx = Null THEN current_instance_idx ELSE idx

\* lines 330-335: the tracked metrics found in the results
Present(results) == { n \in MetricNames : n \in DOMAIN results }

\* lines 336-339: the new best value of one metric
BestOf(name, current_best, res_val) ==
  IF Direction(name) = "min" THEN Min(current_best, res_val)
                             ELSE Max(current_best, res_val)

\* lines 328-339: best_results, built from the metrics in the results only
best_results(results) ==
  [n \in Present(results) |-> BestOf(n, stats.best[n], results[n])]

\* lines 328-335: latest_results
latest_results(results) == [n \in Present(results) |-> results[n]]

\* lines 314-344
RecordResults(idx, results) ==
  /\ pc = "idle"
  /\ num_records < MaxRecords
  /\ num_records' = num_records + 1
  /\ rec_call' = [no_idx |-> idx = Null,
                  registered |-> DOMAIN instances # {},
                  after_none |-> ret = Null]
  /\ IF LookupKey(idx) \notin DOMAIN instances
       THEN \* self.instances[...] raises KeyError
            /\ rec_outcome' = "KeyError:instance"
            /\ UNCHANGED << stats, seen, last_recorded >>
       ELSE IF \E n \in Present(results) : n \notin DOMAIN stats.best
       THEN \* self.stats['best'][metric_name] raises KeyError (line 333)
            /\ rec_outcome' = "KeyError:best"
            /\ UNCHANGED << stats, seen, last_recorded >>
       ELSE /\ stats' = [best |-> best_results(results),
                         latest |-> latest_results(results)]
            /\ seen' = [n \in MetricNames |->
                          IF n \in Present(results)
                            THEN seen[n] \cup {results[n]}
                            ELSE seen[n]]
            /\ last_recorded' =
                 [n \in DOMAIN last_recorded \cup Present(results) |->
                    IF n \in Present(results) THEN results[n]
                                              ELSE last_recorded[n]]
            /\ rec_outcome' = "ok"
  /\ UNCHANGED << genVars, best_call >>

\* the generation loop alone
Next == NextGen

Spec == Init /\ [][Next]_vars

\* generation (a few attempts) interleaved with record_results
MaxGeneratedRec == 2

NextRec ==
  \/ (num_generated_models < MaxGeneratedRec /\ NextGen)
  \/ \E idx \in {Null} \cup Ids, results \in ResultSets :
        RecordResults(idx, results)

\* the earlier runs left no result, or the result of one configuration;
\* the factory built that configuration in the constructor
InitRec ==
  /\ Init
  /\ previous_instances \in {{}, {Sha256Prefix[1]}}
  /\ built = {1}

SpecRec == InitRec /\ [][NextRec]_vars

\* ------------------------------------------- get_best_models, get_best_model
Directions == {"min", "max"}

\* what the results directory can hold: per result file, in discovery
\* order, the values of the metrics
Disks ==
  UNION { [1 .. n -> [MetricNames -> Values]] : n \in 0 .. MaxResults }

\* read_results(results_dir).results: one record per result file, with the
\* names of its files (line 355, lines 361-363)
read_results(disk) ==
  [i \in DOMAIN disk |->
     [execution_prefix |-> i, key_metrics |-> disk[i],
      config_file |-> i, weights_file |-> i, results_file |-> i]]

\* a is strictly better than b under the direction
Better(a, b, direction) == IF direction = "min" THEN a < b ELSE a > b

\* one record put into a ranked sequence, behind its equals
RECURSIVE InsertRanked(_, _, _, _)
InsertRanked(ranked, r, metric, direction) ==
  IF ranked = << >> THEN << r >>
  ELSE IF Better(r.key_metrics[metric], Head(ranked).key_metrics[metric],
                 direction)
    THEN << r >> \o ranked
    ELSE << Head(ranked) >>
           \o InsertRanked(Tail(ranked), r, metric, direction)

\* ResultSet.sorted_by_metric(metric, direction): a stable sort, best first
RECURSIVE SortPrefix(_, _, _, _)
SortPrefix(results, n, metric, direction) ==
  IF n = 0 THEN << >>
  ELSE InsertRanked(SortPrefix(results, n - 1, metric, direction),
                    results[n], metric, direction)

sorted_by_metric(results, metric, direction) ==
  SortPrefix(results, Len(results), metric, direction)

\* ResultSet.limit(num_models): the first num_models records
limit(results, num_models) ==
  SubSeq(results, 1, Min(num_models, Len(results)))

\* reload_model(config_file, weights_file, results_file): the model of
\* these files
reload_model(config_file, weights_file, results_file) ==
  [config |-> config_file, weights |-> weights_file]

\* the models reloaded in the order of the directory, not of the ranking
get_best_models_unranked(disk, metric, direction, num_models) ==
  LET all == read_results(disk)
      result_set == limit(sorted_by_metric(all, metric, direction),
                          num_models)
  IN [models |-> [i \in DOMAIN result_set |->
                    reload_model(all[i].config_file, all[i].weights_file,
                                 all[i].results_file)],
      results |-> result_set]

\* lines 350-368: the pair (models, result_set)
get_best_models(disk, metric, direction, num_models) ==
  LET result_set == limit(sorted_by_metric(read_results(disk), metric,
                                           direction), num_models)
  IN [models |-> [i \in DOMAIN result_set |->
                    reload_model(result_set[i].config_file,
                                 result_set[i].weights_file,
                                 result_set[i].results_file)],
      results |-> result_set]

\* the call reads and writes no state of the tuner: one query is followed
\* per run
GetBestModels(disk, metric, direction, num_models) ==
  /\ pc = "idle"
  /\ best_call.op = "none"
  /\ LET r == get_best_models(disk, metric, direction, num_models) IN
       best_call' = [op |-> "get_best_models", disk |-> disk,
                     metric |-> metric, direction |-> direction,
                     num_models |-> num_models, outcome |-> "ok",
                     models |-> r.models, results |-> r.results]
  /\ UNCHANGED << genVars, recVars >>

\* the keyword arguments a caller passes to get_best_model
KwargsSets ==
  {<< >>}
    \cup { [metric |-> m] : m \in MetricNames }
    \cup { [direction |-> d] : d \in Directions }
    \cup { [metric |-> m, direction |-> d] :
             m \in MetricNames, d \in Directions }
    \cup { [num_models |-> n] : n \in 1 .. 2 }
    \cup { [metric |-> m, num_models |-> n] :
             m \in MetricNames, n \in 1 .. 2 }

\* f(num_models=1, **kwargs): the keyword arguments the callee receives
WithNumModels(kwargs) ==
  [k \in DOMAIN kwargs \cup {"num_models"} |->
     IF k = "num_models" THEN 1 ELSE kwargs[k]]

\* lines 346-348: get_best_model calls itself with num_models=1 added to
\* its keyword arguments; a call that passes num_models twice raises
\* TypeError, and an exception of the inner call propagates
RECURSIVE get_best_model(_, _)
get_best_model(disk, kwargs) ==
  IF "num_models" \in DOMAIN kwargs
    THEN [outcome |-> "TypeError"]
    ELSE LET inner == get_best_model(disk, WithNumModels(kwargs)) IN
         IF inner.outcome # "ok"
           THEN inner
           ELSE \* line 348: the pair is unpacked as (resultset, models)
                [outcome |-> "ok", model |-> inner.result[1],
                 result |-> inner.model.results[1]]

GetBestModel(disk, kwargs) ==
  /\ pc = "idle"
  /\ best_call.op = "none"
  /\ best_call' = [op |-> "get_best_model", disk |-> disk,
                   kwargs |-> kwargs,
                   returned |-> get_best_model(disk, kwargs)]
  /\ UNCHANGED << genVars, recVars >>

NextBest ==
  /\ pc = "idle"
  /\ best_call.op = "none"
  /\ \/ \E disk \in Disks, metric \in MetricNames,
            direction \in Directions, num_models \in 0 .. MaxResults + 1 :
            GetBestModels(disk, metric, direction, num_models)
     \/ \E disk \in Disks, kwargs \in KwargsSets :
            GetBestModel(disk, kwargs)

\* the query does not read previous_instances: a first run is followed
InitBestQuery == Init /\ previous_instances = {}

SpecBest == InitBestQuery /\ [][NextBest]_vars

\* one long call: a call begins only while the run has made at most
\* MaxBeforeLong attempts, and is then followed to the end of its budget
MaxBeforeLong == 1
MaxAttemptsOfCall == 3 * (max_fail_streak - 1) + 1
MaxGeneratedLong == MaxBeforeLong + MaxAttemptsOfCall

InitLong ==
  /\ InitTuner
  /\ previous_instances = {Sha256Prefix[1]}
  /\ max_generated = MaxGeneratedLong

NextLong ==
  /\ pc = "idle" => num_generated_models <= MaxBeforeLong
  /\ NextGen

SpecLong == InitLong /\ [][NextLong]_vars

\* ------------------------------------------------------------------ claims
\* failed builds and previous-run duplicates counted since the call began
InvalidInCall == num_invalid_models - entry.invalid
PreviousInCall == num_mdl_previously_trained - entry.previously

\* C1: on a freshly constructed tuner whose factory fails on every attempt,
\* new_instance keeps looping for fewer than max_fail_streak attempts and
\* returns None at attempt max_fail_streak exactly, with num_invalid_models
\* equal to max_fail_streak.
C1_AlwaysFailingFactory ==
  (fail_streak > 0 /\ entry.generated = 0
     /\ num_invalid_models = num_generated_models)
  => IF fail_streak < max_fail_streak
       THEN pc = "loop" /\ ret = Pending
       ELSE /\ fail_streak = max_fail_streak
            /\ num_invalid_models = max_fail_streak
            /\ pc = "idle"
            /\ ret = Null

C1_Witness ==
  /\ entry.generated = 0
  /\ pc = "idle"
  /\ ret = Null
  /\ fail_streak = max_fail_streak
  /\ num_invalid_models = max_fail_streak
  /\ num_generated_models = max_fail_streak

\* C2 (as claimed), for the None returned after a failed build: the call
\* gives up only when the failed builds of that same call have reached
\* max_fail_streak; failures of earlier calls do not count.
C2_NullOnlyByStreakOfTheCall ==
  (pc = "idle" /\ ret = Null /\ last = "invalid")
  => InvalidInCall >= max_fail_streak

\* C3 (as claimed): an attempt in which the factory returns no model is
\* counted in num_invalid_models and retried; it ends the call only once the
\* failed builds of the call have reached max_fail_streak.
C3_NoModelIsCountedAndRetried ==
  [][ none_returns' # none_returns
      => /\ num_invalid_models' = num_invalid_models + 1
         /\ (pc' = "idle" =>
               num_invalid_models' - entry.invalid >= max_fail_streak) ]_vars

\* the run so far: no earlier results, at least one attempt, and the
\* factory built a model of one and the same configuration in the
\* constructor and in every attempt
SameModelRun ==
  /\ previous_instances = {}
  /\ num_generated_models > 0
  /\ num_invalid_models = 0
  /\ none_returns = 0
  /\ Cardinality(built) = 1
  /\ Null \notin built

\* what C4 promises of such a run
SameModelOutcome ==
  /\ Cardinality(DOMAIN instances) = 1
  /\ IF entry.generated = 0
       THEN \* the first call: one attempt, registered and returned
            /\ num_generated_models = 1
            /\ pc = "idle"
            /\ ret \in DOMAIN instances
       ELSE \* a later call: collisions only, None at max_fail_streak
            /\ instances = entry.instances
            /\ collision_streak = fail_streak
            /\ num_collisions = entry.collisions + collision_streak
            /\ IF collision_streak < max_fail_streak
                 THEN pc = "loop" /\ ret = Pending
                 ELSE /\ collision_streak = max_fail_streak
                      /\ pc = "idle"
                      /\ ret = Null

\* C4 (as claimed): with no earlier results and a factory that always builds
\* the same structural model, the first call registers and returns one
\* Instance, and every later call returns None after exactly
\* max_fail_streak collisions, leaving the one Instance in the mapping.
C4_SameModelEveryTime == SameModelRun => SameModelOutcome

\* C4 (amended): the same, for a model whose parameter count is at most
\* max_params.
C4_SameModelWithinMaxParams ==
  (SameModelRun /\ \A c \in built : count_params(c) <= max_params)
  => SameModelOutcome

C4_Witness ==
  /\ SameModelRun
  /\ \A c \in built : count_params(c) <= max_params
  /\ entry.generated = 1
  /\ collision_streak = max_fail_streak
  /\ num_collisions = max_fail_streak
  /\ pc = "idle"
  /\ ret = Null
  /\ Cardinality(DOMAIN instances) = 1

\* C5: in a call whose every attempt built an oversized model of a fresh
\* identity, new_instance returns None at the max_fail_streak-th rejection
\* and not before, num_over_sized_models has grown by the number of
\* rejections, and the mapping is as the call found it.
C5_AlwaysOverSized ==
  (fail_streak > 0 /\ over_sized_streak = fail_streak)
  => /\ instances = entry.instances
     /\ num_over_sized_models = entry.oversized + over_sized_streak
     /\ IF over_sized_streak < max_fail_streak
          THEN pc = "loop" /\ ret = Pending
          ELSE /\ over_sized_streak = max_fail_streak
               /\ pc = "idle"
               /\ ret = Null

C5_Witness ==
  /\ over_sized_streak = max_fail_streak
  /\ fail_streak = max_fail_streak
  /\ num_over_sized_models = entry.oversized + max_fail_streak
  /\ entry.generated > 0
  /\ pc = "idle"
  /\ ret = Null

\* C6: an attempt whose identity is in previous_instances adds one to
\* num_mdl_previously_trained (and to num_generated_models, as every attempt
\* does) and leaves num_collisions, num_invalid_models,
\* num_over_sized_models, both streaks and the mapping alone; a call made of
\* such attempts only is still looping, however many they are, and when a
\* fresh in-budget model follows them the call returns its Instance.
C6_PreviousStep ==
  (last' = "previous" /\ fail_streak' = fail_streak + 1)
  => /\ num_mdl_previously_trained' = num_mdl_previously_trained + 1
     /\ num_generated_models' = num_generated_models + 1
     /\ pc' = "loop"
     /\ ret' = Pending
     /\ UNCHANGED << num_collisions, num_invalid_models,
                     num_over_sized_models, collision_streak,
                     over_sized_streak, instances, current_instance_idx >>

C6_PreviousThenFresh ==
  /\ (fail_streak > 0 /\ PreviousInCall = fail_streak)
       => (pc = "loop" /\ ret = Pending)
  /\ (last = "success" /\ PreviousInCall = fail_streak - 1)
       => /\ pc = "idle"
          /\ ret \in DOMAIN instances
          /\ ret \notin DOMAIN entry.instances
          /\ ret \notin previous_instances
          /\ instances[ret].num_params <= max_params

C6_PreviousRunSkipIsUncounted ==
  []C6_PreviousThenFresh /\ [][C6_PreviousStep]_vars

C6_Witness ==
  /\ last = "success"
  /\ PreviousInCall = fail_streak - 1
  /\ PreviousInCall >= max_fail_streak
  /\ num_collisions = entry.collisions
  /\ ret \in DOMAIN instances

\* C7: the mapping never shares a key with previous_instances and holds
\* in-budget Instances only; a step never removes or changes a registered
\* Instance; and every identity new_instance returns was neither in
\* previous_instances nor a key of the mapping before, so none is returned
\* twice.
C7_MappingInv ==
  /\ DOMAIN instances \cap previous_instances = {}
  /\ \A k \in DOMAIN instances :
       /\ instances[k].idx = k
       /\ instances[k].num_params <= max_params
       /\ compute_model_id(instances[k].model) = k

C7_ReturnStep ==
  /\ \A k \in DOMAIN instances :
       k \in DOMAIN instances' /\ instances'[k] = instances[k]
  /\ (pc = "loop" /\ pc' = "idle"
        /\ ret' \notin {Null, AttributeErrorRaised})
       => /\ ret' \in Ids
          /\ ret' \notin DOMAIN instances
          /\ ret' \notin DOMAIN entry.instances
          /\ ret' \notin previous_instances
          /\ DOMAIN instances' = DOMAIN instances \cup {ret'}
          /\ instances'[ret'].num_params <= max_params

C7_NeverSeenBefore == []C7_MappingInv /\ [][C7_ReturnStep]_vars

C7_Witness ==
  /\ Cardinality(DOMAIN instances) = 2
  /\ previous_instances # {}
  /\ num_mdl_previously_trained > 0
  /\ num_collisions > 0
  /\ pc = "idle"
  /\ ret \in DOMAIN instances

\* a is at least as good as b under the direction of the metric
AtLeastAsGood(name, a, b) ==
  IF Direction(name) = "min" THEN a <= b ELSE a >= b

\* C8 (as claimed): for every key metric that has been recorded, best is
\* at least as good as every recorded value and is the best of them, and
\* latest is the value recorded most recently.
C8_BestAndLatestFollowTheRecords ==
  \A n \in MetricNames :
    seen[n] # {}
    => /\ n \in DOMAIN stats.best
       /\ \A v \in seen[n] : AtLeastAsGood(n, stats.best[n], v)
       /\ stats.best[n] \in seen[n]
       /\ n \in DOMAIN stats.latest
       /\ stats.latest[n] = last_recorded[n]

\* C9 (as claimed): a record_results whose results lack a key metric leaves
\* the best and latest entries of that metric as they were, and no later
\* record_results fails to find the best entry of a metric it contains.
C9_AbsentStep ==
  \A idx \in {Null} \cup Ids, results \in ResultSets :
    RecordResults(idx, results)
    => \A n \in MetricNames \ DOMAIN results :
         /\ n \in DOMAIN stats.best
              => (n \in DOMAIN stats'.best /\ stats'.best[n] = stats.best[n])
         /\ n \in DOMAIN stats.latest
              => (n \in DOMAIN stats'.latest
                    /\ stats'.latest[n] = stats.latest[n])

C9_AbsentMetricsKeepTheirEntries ==
  [](rec_outcome # "KeyError:best") /\ [][C9_AbsentStep]_vars

\* C10 (as claimed): once a metric has been recorded with one value only,
\* its best entry is that value, whatever the value and the direction.
C10_FirstValueBecomesBest ==
  \A n \in MetricNames :
    (Cardinality(seen[n]) = 1 /\ n \in DOMAIN stats.best)
    => stats.best[n] \in seen[n]

\* C11 (as claimed): num_generated_models is the number of Instances
\* registered in the mapping during the run; rejected attempts do not
\* change it.
C11_GeneratedCountsRegistered ==
  num_generated_models = Cardinality(DOMAIN instances)

\* C12 (as claimed): whenever new_instance has returned, an Instance or
\* None, the four counts of meta_data['tuner'] equal the counters.
C12_MetadataFollowsCounters ==
  (pc = "idle" /\ ret # Pending)
  => /\ meta_tuner.trained_models = num_generated_models
     /\ meta_tuner.collisions = num_collisions
     /\ meta_tuner.invalid_models = num_invalid_models
     /\ meta_tuner.over_size_models = num_over_sized_models

\* the configurations of the registered Instances
RegisteredConfigs == { get_config(instances[k].model) : k \in DOMAIN instances }

\* C15: the identity is a function of the structural configuration alone:
\* no configuration is registered under two keys, whatever hyperparameters
\* were sampled; a successful or oversized attempt never builds a
\* configuration that is registered or that an earlier run trained, such a
\* model being classified as a collision or a previous-run duplicate.
C15_OneKeyPerConfig ==
  \A k1 \in DOMAIN instances, k2 \in DOMAIN instances :
    get_config(instances[k1].model) = get_config(instances[k2].model)
    => k1 = k2

C15_RepeatStep ==
  \A model \in Models :
    /\ (AttemptSuccess(model) \/ AttemptOverSized(model))
         => /\ get_config(model) \notin RegisteredConfigs
            /\ Sha256Prefix[get_config(model)] \notin previous_instances
    /\ (AttemptCollision(model) \/ AttemptPrevious(model))
         => (\/ get_config(model) \in RegisteredConfigs
             \/ Sha256Prefix[get_config(model)] \in previous_instances)

C15_IdentityOfConfigOnly == []C15_OneKeyPerConfig /\ [][C15_RepeatStep]_vars

C15_Witness ==
  /\ last = "collision"
  /\ num_collisions >= 2
  /\ num_mdl_previously_trained >= 1
  /\ Cardinality(DOMAIN instances) = 2
  /\ \E k1 \in DOMAIN instances, k2 \in DOMAIN instances :
       instances[k1].hparams # instances[k2].hparams

\* C16: while a call of new_instance has not returned an Instance, and so
\* when it has returned None, the mapping and current_instance_idx are what
\* they were when the call began; an oversized Instance is stored nowhere.
C16_NullCallLeavesMapping ==
  (pc = "loop" \/ ret = Null)
  => /\ instances = entry.instances
     /\ current_instance_idx = entry.current_instance_idx

C16_Witness ==
  /\ pc = "idle"
  /\ ret = Null
  /\ last = "oversized"
  /\ over_sized_streak = max_fail_streak
  /\ Cardinality(DOMAIN instances) = 1
  /\ current_instance_idx \in DOMAIN instances

\* C17: every attempt is classified once: num_generated_models is the sum
\* of the failed builds, the previous-run duplicates, the collisions, the
\* oversized rejections, the registered Instances and the attempts in which
\* the factory returned no model.
C17_EveryAttemptClassifiedOnce ==
  num_generated_models =
    num_invalid_models + num_mdl_previously_trained + num_collisions
      + num_over_sized_models + Cardinality(DOMAIN instances) + none_returns

C17_Witness ==
  /\ num_invalid_models > 0
  /\ num_mdl_previously_trained > 0
  /\ num_collisions > 0
  /\ num_over_sized_models > 0
  /\ none_returns > 0
  /\ Cardinality(DOMAIN instances) > 0
  /\ pc = "idle"

\* C13: in every call the attempts that are not previous-run duplicates
\* number at most 3 * (max_fail_streak - 1) + 1, and at most
\* 3 * (max_fail_streak - 1) while the call is still looping: without such
\* duplicates the call has returned by then, whatever the factory produces.
C13_CallEndsWithinBudget ==
  /\ fail_streak - PreviousInCall <= 3 * (max_fail_streak - 1) + 1
  /\ pc = "loop" => fail_streak - PreviousInCall <= 3 * (max_fail_streak - 1)

C13_Witness ==
  /\ PreviousInCall = 0
  /\ fail_streak = 3 * (max_fail_streak - 1) + 1
  /\ InvalidInCall = max_fail_streak - 1
  /\ collision_streak = max_fail_streak - 1
  /\ over_sized_streak = max_fail_streak
  /\ pc = "idle"
  /\ ret = Null

\* C18: current_instance_idx is NoIdx while nothing is registered and a key
\* of the mapping afterwards; it changes only when an Instance is
\* registered, to the key of that Instance; so a record_results without idx
\* finds the most recently registered Instance whenever one exists, also
\* after a call of new_instance that returned None.
C18_IdxInv ==
  IF DOMAIN instances = {} THEN current_instance_idx = NoIdx
                           ELSE current_instance_idx \in DOMAIN instances

C18_IdxStep ==
  /\ DOMAIN instances' # DOMAIN instances
       => DOMAIN instances' \ DOMAIN instances = {current_instance_idx'}
  /\ DOMAIN instances' = DOMAIN instances
       => current_instance_idx' = current_instance_idx

C18_RecordFindsInstance ==
  (rec_call.no_idx /\ rec_call.registered)
  => rec_outcome # "KeyError:instance"

C18_CurrentIsLastRegistered ==
  [](C18_IdxInv /\ C18_RecordFindsInstance) /\ [][C18_IdxStep]_vars

C18_Witness ==
  /\ rec_outcome = "ok"
  /\ rec_call.no_idx
  /\ rec_call.registered
  /\ rec_call.after_none
  /\ Cardinality(DOMAIN instances) = 1
  /\ current_instance_idx \in DOMAIN instances

\* the value a record holds for the metric of the last get_best_models
RankedValue(r) == r.key_metrics[best_call.metric]

\* record a comes before record b in the ranking: a strictly better value,
\* or the same value and discovered earlier
RanksBefore(a, b) ==
  \/ Better(RankedValue(a), RankedValue(b), best_call.direction)
  \/ /\ RankedValue(a) = RankedValue(b)
     /\ a.execution_prefix < b.execution_prefix

\* C14: get_best_models returns min(num_models, number of results) records
\* of the directory, each once, in ranking order (best first, equal values
\* in discovery order), every record left out ranking behind every record
\* returned; and the i-th model is the one reloaded from the files of the
\* i-th record.
C14_BestModelsRanked ==
  best_call.op = "get_best_models"
  => LET all == read_results(best_call.disk)
         res == best_call.results
         models == best_call.models
     IN /\ Len(res) = IF best_call.num_models <= Len(all)
                        THEN best_call.num_models ELSE Len(all)
        /\ Len(models) = Len(res)
        /\ \A i \in DOMAIN res :
             /\ res[i].execution_prefix \in DOMAIN all
             /\ res[i] = all[res[i].execution_prefix]
             /\ models[i].config = res[i].config_file
             /\ models[i].weights = res[i].weights_file
        /\ \A i \in DOMAIN res, j \in DOMAIN res :
             i < j => RanksBefore(res[i], res[j])
        /\ \A k \in DOMAIN all :
             (\A i \in DOMAIN res : res[i] # all[k])
             => \A i \in DOMAIN res : RanksBefore(res[i], all[k])

C14_Witness ==
  /\ best_call.op = "get_best_models"
  /\ best_call.direction = "max"
  /\ Len(best_call.disk) = 3
  /\ best_call.num_models = 2
  /\ Len(best_call.results) = 2
  /\ best_call.results[1].execution_prefix = 2
  /\ best_call.results[2].execution_prefix = 3
  /\ RankedValue(best_call.results[1]) = RankedValue(best_call.results[2])

\* C19 (as claimed), for a directory that holds results and keyword
\* arguments without num_models: get_best_model returns the first model and
\* the first result record of get_best_models(num_models=1, **kwargs).
C19_BestModelIsFirstOfBestModels ==
  (best_call.op = "get_best_model" /\ best_call.disk # << >>
     /\ "num_models" \notin DOMAIN best_call.kwargs)
  => LET kw == best_call.kwargs
         metric == IF "metric" \in DOMAIN kw THEN kw.metric ELSE "loss"
         direction == IF "direction" \in DOMAIN kw THEN kw.direction
                                                   ELSE "min"
         top == get_best_models(best_call.disk, metric, direction, 1)
     IN /\ best_call.returned.outcome = "ok"
        /\ best_call.returned.model = top.models[1]
        /\ best_call.returned.result = top.results[1]
====
